---- MODULE Spec2Model ----
(***************************************************************************)
(* Model of the Dashboard component (src/unnamed/part_003, lines 1-1860):  *)
(* the position accounting, the Health Factor engine, the transaction      *)
(* orchestrator (txStep / liquidateTxStep / faucetTxStep) and the          *)
(* liquidation sizer, together with the wagmi hooks they run on.           *)
(*                                                                         *)
(* Amounts are bigint token amounts.  The fixed-point scales of the        *)
(* source (WAD = 10^18, ORACLE_PRICE_SCALE = 10^36, LLTV = 0.92 WAD) are   *)
(* scaled down (WAD to 10^3, ORACLE_PRICE_SCALE to 10) so that every       *)
(* product stays inside TLC's integers; all formulas keep the shape they   *)
(* have in the source.                                                     *)
(*                                                                         *)
(* A JavaScript Number holding a token amount x / 1e18 is represented by   *)
(* the integer x after rounding to the Number's mantissa (ToNumber), so    *)
(* Number(b) / 1e18, parseFloat(s) and the way back through toFixed(18) /  *)
(* toString() and parseUnits lose the low digits exactly where the source  *)
(* loses them.  The empty input string is NoInput.                         *)
(*                                                                         *)
(* One step of the model is one event of the page (a click, a keystroke,   *)
(* a hook delivering data, a promise or timer firing) followed by the      *)
(* renders and effects React runs before the next event (Settle).          *)
(***************************************************************************)
EXTENDS Integers, Sequences, FiniteSets, TLC

\* ---------------------------------------------------------------- constants
\* part_003:34  WAD = 10n ** 18n, scaled to 10^3
WAD == 1000
\* part_003:33  ORACLE_PRICE_SCALE = 10n ** 36n, scaled to 10
ORACLE_PRICE_SCALE == 10
\* part_000:18  LLTV = 920000000000000000n (92% of WAD)
LLTV == 920
\* part_003:584 the Health Factor is clamped to 1000
HF_CLAMP == 1000
\* part_003:468 liquidationIncentive = 105n (percent)
LIQUIDATION_INCENTIVE == 105
\* part_003:484 the 95% safety margin
SAFETY_MARGIN == 95
\* part_003:730 parseUnits('0.0001', 18): debts up to this are dust
DUST == 1
\* mantissa width of a Number (53 bits in the source for WAD = 10^18;
\* 8 bits here for WAD = 10^3: in both, WAD itself is exact, the integers
\* next to it are not, and the rounding error stays far below 1%)
MantBits == 8

\* ------------------------------------------------------------------- bounds
\* delayed resets (Promise.all + setTimeout) that may be outstanding at once
MaxJobs == 2
\* fresh-position reads of executeLiquidationAfterApprove outstanding at once
MaxReads == 1
\* tracked borrowers in liquidatablePositions
MaxList == 2

NoInput == -1
NULL == -1

\* ------------------------------------------------------------ pure functions
Min(a, b) == IF a < b THEN a ELSE b

RECURSIVE Pow2(_)
Pow2(n) == IF n = 0 THEN 1 ELSE 2 * Pow2(n - 1)

\* the power of two q with q * 2^(MantBits-1) <= n < q * 2^MantBits
RECURSIVE Ulp(_, _)
Ulp(n, q) == IF n < q * Pow2(MantBits) THEN q ELSE Ulp(n, 2 * q)

\* Number(n) for a non-negative integer n: round to nearest, ties to even
ToNumber(n) ==
    LET q    == Ulp(n, 1)
        r    == n % q
        base == n - r
    IN  IF r = 0 THEN n
        ELSE IF 2 * r < q THEN base
        ELSE IF 2 * r > q THEN base + q
        ELSE IF (base \div q) % 2 = 0 THEN base ELSE base + q

\* parseFloat of an input string; the callers guard the empty string
parseFloat(str) == ToNumber(str)

\* parseUnits(str, 18) of an input string ('' parses to 0n)
parseUnits(str) == IF str = NoInput THEN 0 ELSE str

assetsFromSharesFloat(shares, totalAssets, totalShares) ==
    IF totalShares > 0
    THEN ToNumber(ToNumber(shares) * ToNumber(totalAssets)) \div totalShares
    ELSE 0
\* lines 320-325 / 378: shares * totalAssets / totalShares, 0 without shares
assetsFromShares(shares, totalAssets, totalShares) ==
    IF totalShares > 0 THEN (shares * totalAssets) \div totalShares ELSE 0

\* lines 345 / 383 / 579 / 733
maxBorrowOf(collateral, price) ==
    (collateral * price * LLTV) \div (ORACLE_PRICE_SCALE * WAD)


\* ------------------------------------------------------------------- state
VARIABLES
    isConnected,            \* useAccount(): a wallet is connected (address set)
    currentView, selection, actionMode,
    inputAmount, collateralAmount, simulatedHF,
    executionStatus, txStep,
    approvedCollateralRef, borrowAmountRef, isFullRepayRef,
    upethBalance, upkrwBalance, userPosition,
    liquidatablePositions, selectedBorrower, liquidateAmount,
    liquidateTxStep, faucetTxStep, errorMessage,
    positionData, marketData, oraclePrice, hasClaimedData,
    wr,                     \* useWriteContract + useWaitForTransactionReceipt
    withdrawRead,           \* executeWithdraw suspended at its position read
    liqReads,               \* executeLiquidationAfterApprove calls suspended
    resetJobs, faucetJobs,  \* Promise.all(refetch).then(setTimeout(reset))
    liqRefresh,             \* post-liquidation refresh of the borrower entry
    checkRead,              \* handleCheckBorrower suspended at its read
    ownTx,                  \* history: the current write was submitted by
                            \* the orchestrator in the current txStep
    lastTx                  \* the request of the last writeContract call

vars == << isConnected, currentView, selection, actionMode, inputAmount,
           collateralAmount, simulatedHF, executionStatus, txStep,
           approvedCollateralRef, borrowAmountRef, isFullRepayRef,
           upethBalance, upkrwBalance, userPosition, liquidatablePositions,
           selectedBorrower, liquidateAmount, liquidateTxStep, faucetTxStep,
           errorMessage, positionData, marketData, oraclePrice,
           hasClaimedData, wr, withdrawRead, liqReads, resetJobs, faucetJobs,
           liqRefresh, checkRead, ownTx, lastTx >>

\* the component as one render sees it
Cur == [ isConnected |-> isConnected, currentView |-> currentView,
         selection |-> selection, actionMode |-> actionMode,
         inputAmount |-> inputAmount, collateralAmount |-> collateralAmount,
         simulatedHF |-> simulatedHF, executionStatus |-> executionStatus,
         txStep |-> txStep, approvedCollateralRef |-> approvedCollateralRef,
         borrowAmountRef |-> borrowAmountRef,
         isFullRepayRef |-> isFullRepayRef, upethBalance |-> upethBalance,
         upkrwBalance |-> upkrwBalance, userPosition |-> userPosition,
         liquidatablePositions |-> liquidatablePositions,
         selectedBorrower |-> selectedBorrower,
         liquidateAmount |-> liquidateAmount,
         liquidateTxStep |-> liquidateTxStep, faucetTxStep |-> faucetTxStep,
         errorMessage |-> errorMessage, positionData |-> positionData,
         marketData |-> marketData, oraclePrice |-> oraclePrice,
         hasClaimedData |-> hasClaimedData, wr |-> wr,
         withdrawRead |-> withdrawRead, liqReads |-> liqReads,
         resetJobs |-> resetJobs, faucetJobs |-> faucetJobs,
         liqRefresh |-> liqRefresh, checkRead |-> checkRead,
         ownTx |-> ownTx, lastTx |-> lastTx ]

Commit(s) ==
    /\ isConnected' = s.isConnected /\ currentView' = s.currentView
    /\ selection' = s.selection /\ actionMode' = s.actionMode
    /\ inputAmount' = s.inputAmount /\ collateralAmount' = s.collateralAmount
    /\ simulatedHF' = s.simulatedHF /\ executionStatus' = s.executionStatus
    /\ txStep' = s.txStep /\ approvedCollateralRef' = s.approvedCollateralRef
    /\ borrowAmountRef' = s.borrowAmountRef
    /\ isFullRepayRef' = s.isFullRepayRef /\ upethBalance' = s.upethBalance
    /\ upkrwBalance' = s.upkrwBalance /\ userPosition' = s.userPosition
    /\ liquidatablePositions' = s.liquidatablePositions
    /\ selectedBorrower' = s.selectedBorrower
    /\ liquidateAmount' = s.liquidateAmount
    /\ liquidateTxStep' = s.liquidateTxStep /\ faucetTxStep' = s.faucetTxStep
    /\ errorMessage' = s.errorMessage /\ positionData' = s.positionData
    /\ marketData' = s.marketData /\ oraclePrice' = s.oraclePrice
    /\ hasClaimedData' = s.hasClaimedData /\ wr' = s.wr
    /\ withdrawRead' = s.withdrawRead /\ liqReads' = s.liqReads
    /\ resetJobs' = s.resetJobs /\ faucetJobs' = s.faucetJobs
    /\ liqRefresh' = s.liqRefresh /\ checkRead' = s.checkRead
    /\ ownTx' = s.ownTx /\ lastTx' = s.lastTx

\* what React re-renders on: useState values and hook results, not the
\* refs, the suspended promises and timers, nor the history variables
Rendered == { "isConnected", "currentView", "selection", "actionMode",
              "inputAmount", "collateralAmount", "simulatedHF",
              "executionStatus", "txStep", "upethBalance", "upkrwBalance",
              "userPosition", "liquidatablePositions", "selectedBorrower",
              "liquidateAmount", "liquidateTxStep", "faucetTxStep",
              "errorMessage", "positionData", "marketData", "oraclePrice",
              "hasClaimedData", "wr" }
View(s) == [f \in Rendered |-> s[f]]

NoPosition == [ok |-> FALSE, supplyShares |-> 0, borrowShares |-> 0,
               collateral |-> 0]
NoMarket == [ok |-> FALSE, totalSupplyAssets |-> 0, totalSupplyShares |-> 0,
             totalBorrowAssets |-> 0, totalBorrowShares |-> 0]
NoBorrower == [ok |-> FALSE, borrower |-> "", collateral |-> 0,
               borrowShares |-> 0, borrowAssets |-> 0, healthFactor |-> 0]
\* a write request: the call and its arguments, with what the handler
\* computed them from (note) and a serial bit that tells two requests apart
NoNote == [repay |-> 0, fresh |-> NoPosition, oraclePrice |-> 0,
           marketData |-> NoMarket, borrower |-> ""]
NoTx == [fn |-> "none", owner |-> "none", token |-> "", assets |-> 0,
         shares |-> 0, note |-> NoNote, serial |-> 0]
NoRead == [active |-> FALSE, amount |-> 0, oraclePrice |-> 0,
           marketData |-> NoMarket]
NoCheck == [active |-> FALSE, borrower |-> "", exists |-> FALSE,
            oraclePrice |-> 0, marketData |-> NoMarket]

\* ----------------------------------------------------- hooks and setters
isTxPending(s) == s.wr = "mining"
isTxSuccess(s) == s.wr = "confirmed"
isTxError(s) == s.wr = "reverted"
writeError(s) == s.wr = "rejected"

\* setTxStep; the write in flight was not submitted in the new step
setTxStep(s, v) ==
    [s EXCEPT !.txStep = v, !.ownTx = FALSE]

\* lines 189-192: a new write replaces the hook's hash, error and receipt
writeContract(s, owner, fn, token, assets, shares, note) ==
    [s EXCEPT !.wr = "signing",
              !.ownTx = (owner = "main"),
              !.lastTx = [fn |-> fn, owner |-> owner, token |-> token,
                          assets |-> assets, shares |-> shares, note |-> note,
                          serial |-> 1 - @.serial]]

\* line 189: reset() of useWriteContract
resetWrite(s) == [s EXCEPT !.wr = "idle", !.ownTx = FALSE, !.lastTx = NoTx]

clearRefs(s) == [s EXCEPT !.approvedCollateralRef = 0, !.borrowAmountRef = 0,
                          !.isFullRepayRef = FALSE]

calculateHealthFactorInverted(s, newBorrowETH, newCollateralKRW) ==
    IF s.oraclePrice = 0 THEN NULL
    ELSE
    LET totalCollateral == s.userPosition.collateral + newCollateralKRW
        totalBorrow     == s.userPosition.borrowAssets + newBorrowETH
        maxBorrow == maxBorrowOf(totalCollateral, s.oraclePrice)
    IN  IF totalBorrow <= 0 THEN NULL
        ELSE IF totalCollateral <= 0 THEN NULL
        ELSE ToNumber((totalBorrow * WAD) \div maxBorrow)
\* lines 562-588
calculateHealthFactor(s, newBorrowETH, newCollateralKRW) ==
    IF s.oraclePrice = 0 THEN NULL
    ELSE
    LET existingCollateral   == s.userPosition.collateral
        existingBorrowBigInt == s.userPosition.borrowAssets
        totalCollateral == existingCollateral + newCollateralKRW
        totalBorrow     == existingBorrowBigInt + newBorrowETH
        maxBorrow == maxBorrowOf(totalCollateral, s.oraclePrice)
        hf        == ToNumber((maxBorrow * WAD) \div totalBorrow)
    IN  IF totalBorrow <= 0 THEN NULL
        ELSE IF totalCollateral <= 0 THEN NULL
        ELSE IF hf > HF_CLAMP * WAD THEN HF_CLAMP * WAD
        ELSE hf

\* lines 590-605
simulate(s, value) ==
    LET s1 == [s EXCEPT !.inputAmount = value] IN
    IF value = NoInput \/ parseFloat(value) = 0
    THEN [s1 EXCEPT !.simulatedHF = NULL]
    ELSE IF s.selection = "UPETH_BORROW"
    THEN LET borrowAmount == parseFloat(value)
             collateral   == IF s.collateralAmount = NoInput THEN 0
                             ELSE parseFloat(s.collateralAmount)
         IN  [s1 EXCEPT !.simulatedHF =
                          calculateHealthFactor(s, borrowAmount, collateral)]
    ELSE [s1 EXCEPT !.simulatedHF = NULL]

\* lines 986-996
getMaxAmount(s) ==
    IF s.actionMode = "withdraw"
    THEN CASE s.selection = "UPETH" -> s.userPosition.supplyAssets
           [] s.selection = "UPKRW" -> ToNumber(s.userPosition.collateral)
           [] s.selection = "UPETH_BORROW" -> s.userPosition.borrowAssets
           [] OTHER -> 0
    ELSE CASE s.selection \in {"UPETH", "UPETH_BORROW"} -> s.upethBalance
           [] s.selection = "UPKRW" -> s.upkrwBalance
           [] OTHER -> 0

\* lines 616 / 950
hasNewCollateralAlways(s) == TRUE
hasNewCollateral(s) ==
    s.collateralAmount # NoInput /\ parseFloat(s.collateralAmount) > 0

\* line 946: the Health Factor gate of the borrow button
belowGateNever(s) == FALSE
belowGate(s) == s.simulatedHF # NULL /\ s.simulatedHF < WAD

\* an amount that is never held to exceed the maximum
exceedsMaxNever(s) == FALSE
\* lines 941-943
exceedsMax(s) == parseFloat(s.inputAmount) > getMaxAmount(s)

\* lines 931-955
isButtonDisabled(s) ==
    \/ ~s.isConnected
    \/ isTxPending(s)
    \/ s.txStep \in {"approving", "supplying_collateral", "borrowing",
                     "executing"}
    \/ s.executionStatus = "confirmed"
    \/ s.inputAmount = NoInput \/ parseFloat(s.inputAmount) <= 0
    \/ exceedsMax(s)
    \/ /\ s.selection = "UPETH_BORROW" /\ s.actionMode = "supply"
       /\ \/ belowGate(s)
          \/ (~(s.userPosition.collateral > 0) /\ ~hasNewCollateral(s))


\* ------------------------------------------------------------- orchestrator
\* lines 608-664
executeSupply(s) ==
    IF ~s.isConnected \/ s.selection = "null" \/ s.inputAmount = NoInput
    THEN s
    ELSE
    LET amount == parseUnits(s.inputAmount)
    IN
    IF s.selection = "UPETH_BORROW"
    THEN IF ~(s.userPosition.collateral > 0) /\ ~hasNewCollateral(s)
         THEN [s EXCEPT !.errorMessage = "EnterCollateral"]
         ELSE LET b1 == [s EXCEPT !.borrowAmountRef = amount] IN
              IF hasNewCollateral(s)
              THEN LET collateralAmt == parseUnits(s.collateralAmount)
                       b2 == [b1 EXCEPT !.approvedCollateralRef = collateralAmt]
                   IN  writeContract(setTxStep(b2, "approving"), "main",
                                     "approve", "UPKRW", collateralAmt, 0,
                                     NoNote)
              ELSE writeContract(setTxStep(b1, "borrowing"), "main",
                                 "borrow", "UPETH", amount, 0, NoNote)
    ELSE LET token == IF s.selection = "UPKRW" THEN "UPKRW" ELSE "UPETH"
             b1 == [s EXCEPT !.approvedCollateralRef = amount]
         IN  writeContract(setTxStep(b1, "approving"), "main", "approve",
                           token, amount, 0, NoNote)

\* line 753: a repayment of at least the known debt is a full repayment
isFullRepayStrict(amount, borrowAssetsWei) == amount > borrowAssetsWei
isFullRepay(amount, borrowAssetsWei) == amount >= borrowAssetsWei

\* lines 667-770, up to the await of the fresh position (line 687)
executeWithdraw(s) ==
    IF ~s.isConnected \/ s.selection = "null" \/ s.inputAmount = NoInput
    THEN s
    ELSE
    LET amount == parseUnits(s.inputAmount) IN
    CASE s.selection = "UPETH" ->
           writeContract(setTxStep(s, "executing"), "main", "withdraw",
                         "UPETH", amount, 0, NoNote)
      [] s.selection = "UPKRW" ->
           [setTxStep(s, "executing") EXCEPT !.withdrawRead =
               [active |-> TRUE, amount |-> amount,
                oraclePrice |-> s.oraclePrice, marketData |-> s.marketData]]
      [] OTHER ->
           LET borrowAssetsWei == s.userPosition.borrowAssets
               full            == isFullRepay(amount, borrowAssetsWei)
               approveAmount   == IF full THEN amount + (amount \div 100)
                                  ELSE amount
               b1 == [s EXCEPT !.isFullRepayRef = full,
                               !.approvedCollateralRef = amount]
           IN  writeContract(setTxStep(b1, "approving"), "main", "approve",
                             "UPETH", approveAmount, 0, NoNote)

\* a debt that never blocks a withdrawal of all the collateral
debtBlocksAllNever(freshBorrowShares, amount, freshCollateral) == FALSE
\* line 706
debtBlocksAll(freshBorrowShares, amount, freshCollateral) ==
    freshBorrowShares > 0 /\ amount >= freshCollateral

\* lines 694-748: executeWithdraw resumed with the position it read
\* (fresh.ok = FALSE: the read threw, the catch of line 766 runs)
withdrawCollateralResume(s, c, fresh) ==
    LET s0 == [s EXCEPT !.withdrawRead = NoRead]
        reject(msg) == [setTxStep(s0, "idle") EXCEPT !.errorMessage = msg]
        freshBorrowShares == fresh.borrowShares
        freshCollateral   == fresh.collateral
        withdrawAmount    == Min(c.amount, freshCollateral)
        totalBorrowAssets == c.marketData.totalBorrowAssets
        totalBorrowShares == c.marketData.totalBorrowShares
        borrowAssets == (freshBorrowShares * totalBorrowAssets)
                            \div totalBorrowShares
        remainingCollateral == freshCollateral - withdrawAmount
        maxBorrow == maxBorrowOf(remainingCollateral, c.oraclePrice)
    IN
    IF ~fresh.ok THEN setTxStep(s0, "idle")
    ELSE IF debtBlocksAll(freshBorrowShares, c.amount, freshCollateral)
    THEN reject("DebtRemains")
    ELSE IF withdrawAmount = 0
    THEN reject("NoCollateralToWithdraw")
    ELSE IF freshBorrowShares > 0 /\ c.oraclePrice # 0 /\ c.marketData.ok
            /\ totalBorrowShares = 0
    THEN setTxStep(s0, "idle")     \* bigint division by zero, caught at 766
    ELSE IF freshBorrowShares > 0 /\ c.oraclePrice # 0 /\ c.marketData.ok
            /\ borrowAssets > DUST /\ borrowAssets > maxBorrow
    THEN reject("HealthFactorBelowOne")
    ELSE writeContract(s0, "main", "withdrawCollateral", "UPKRW",
                       withdrawAmount, 0,
                       [NoNote EXCEPT !.fresh = fresh,
                                      !.oraclePrice = c.oraclePrice,
                                      !.marketData = c.marketData])

\* lines 772-834
executeAfterApprove(s) ==
    IF ~s.isConnected \/ s.selection = "null" THEN s
    ELSE
    LET amount == s.approvedCollateralRef
    IN
    IF amount = 0 THEN s
    ELSE IF s.actionMode = "withdraw" /\ s.selection = "UPETH_BORROW"
    THEN IF s.isFullRepayRef
         THEN writeContract(setTxStep(s, "executing"), "main", "repay",
                            "UPETH", 0, s.userPosition.borrowShares, NoNote)
         ELSE writeContract(setTxStep(s, "executing"), "main", "repay",
                            "UPETH", amount, 0, NoNote)
    ELSE IF s.selection = "UPETH"
    THEN writeContract(setTxStep(s, "executing"), "main", "supply",
                       "UPETH", amount, 0, NoNote)
    ELSE IF s.selection = "UPKRW"
    THEN writeContract(setTxStep(s, "executing"), "main",
                       "supplyCollateral", "UPKRW", amount, 0, NoNote)
    ELSE writeContract(setTxStep(s, "supplying_collateral"), "main",
                       "supplyCollateral", "UPKRW", amount, 0, NoNote)

\* a borrow step that reads the amount input again
pendingBorrowTyped(s) == parseUnits(s.inputAmount)
\* line 839
pendingBorrow(s) == s.borrowAmountRef

\* lines 836-859
executeBorrow(s) ==
    IF ~s.isConnected \/ s.selection # "UPETH_BORROW" THEN s
    ELSE
    LET borrowAmount == pendingBorrow(s) IN
    IF borrowAmount = 0 THEN s
    ELSE writeContract(setTxStep(s, "borrowing"), "main", "borrow",
                       "UPETH", borrowAmount, 0, NoNote)

\* lines 913-929
handleButtonClickSkipping(s) ==
    IF s.txStep \in {"approved", "collateral_supplied"} THEN executeBorrow(s)
    ELSE IF s.txStep = "idle" THEN executeSupply(s)
    ELSE s
handleButtonClick(s) ==
    IF s.actionMode = "withdraw"
    THEN IF s.txStep = "approved" THEN executeAfterApprove(s)
         ELSE IF s.txStep = "idle" THEN executeWithdraw(s)
         ELSE s
    ELSE IF s.txStep = "approved" THEN executeAfterApprove(s)
         ELSE IF s.txStep = "collateral_supplied" THEN executeBorrow(s)
         ELSE IF s.txStep = "idle" THEN executeSupply(s)
         ELSE s

\* lines 541-547
navigate(s, page) ==
    [s EXCEPT !.currentView = page, !.selection = "null",
              !.inputAmount = NoInput, !.collateralAmount = NoInput,
              !.simulatedHF = NULL]

\* lines 549-560
selectMarket(s, marketId) ==
    clearRefs([setTxStep(s, "idle") EXCEPT
                 !.selection = marketId, !.actionMode = "supply",
                 !.inputAmount = NoInput, !.collateralAmount = NoInput,
                 !.simulatedHF = NULL, !.executionStatus = "idle"])

\* lines 1623 / 1626: the action mode toggle
toggleActionMode(s, mode) ==
    [setTxStep(s, "idle") EXCEPT !.actionMode = mode,
                                 !.inputAmount = NoInput,
                                 !.simulatedHF = NULL]

\* line 1665: the collateral input's onChange
changeCollateral(s, v) ==
    LET s1 == [s EXCEPT !.collateralAmount = v] IN
    IF s.inputAmount # NoInput
    THEN [s1 EXCEPT !.simulatedHF =
            calculateHealthFactor(s, parseFloat(s.inputAmount),
                IF v = NoInput THEN 0 ELSE parseFloat(v))]
    ELSE s1


\* -------------------------------------------------------------- liquidation
toLowerCase(a) == IF a = "0xAB" THEN "0xab" ELSE a

\* lines 361-406; c holds the oraclePrice and marketData the callback closed
\* over, fresh is the position the read returns (fresh.ok = FALSE: it threw)
checkBorrowerPosition(c, borrowerAddress, fresh) ==
    IF c.oraclePrice = 0 \/ ~c.marketData.ok \/ borrowerAddress = ""
    THEN NoBorrower
    ELSE IF ~fresh.ok THEN NoBorrower
    ELSE IF fresh.borrowShares = 0 THEN NoBorrower
    ELSE IF c.marketData.totalBorrowShares = 0 THEN NoBorrower
    ELSE
    LET borrowAssetsBigInt ==
            (fresh.borrowShares * c.marketData.totalBorrowAssets)
                \div c.marketData.totalBorrowShares
        maxBorrow == maxBorrowOf(fresh.collateral, c.oraclePrice)
        hfScaled  == IF borrowAssetsBigInt > 0
                     THEN (maxBorrow * WAD) \div borrowAssetsBigInt ELSE 0
    IN  [ok |-> TRUE, borrower |-> borrowerAddress,
         collateral |-> fresh.collateral, borrowShares |-> fresh.borrowShares,
         borrowAssets |-> ToNumber(borrowAssetsBigInt),
         healthFactor |-> ToNumber(hfScaled)]

\* a search of the list that tells the cases of an address apart
inListExact(list, addr) ==
    \E i \in 1..Len(list) : list[i].borrower = addr
\* line 415
inList(list, addr) ==
    \E i \in 1..Len(list) : toLowerCase(list[i].borrower) = toLowerCase(addr)

\* lines 408-411: handleCheckBorrower up to its await
handleCheckBorrower(s, borrowerToCheck) ==
    IF borrowerToCheck = "" THEN s
    ELSE [s EXCEPT !.checkRead =
            [active |-> TRUE, borrower |-> borrowerToCheck,
             exists |-> inList(s.liquidatablePositions, borrowerToCheck),
             oraclePrice |-> s.oraclePrice, marketData |-> s.marketData]]

\* lines 412-426: handleCheckBorrower resumed
handleCheckBorrowerResume(s, c, fresh) ==
    LET position == checkBorrowerPosition(c, c.borrower, fresh)
        prev     == s.liquidatablePositions
        s0       == [s EXCEPT !.checkRead = NoCheck]
    IN
    IF ~position.ok THEN s0
    ELSE IF ~c.exists
    THEN [s0 EXCEPT !.liquidatablePositions = Append(prev, position)]
    ELSE [s0 EXCEPT !.liquidatablePositions =
            [i \in 1..Len(prev) |->
                IF toLowerCase(prev[i].borrower) = toLowerCase(position.borrower)
                THEN position ELSE prev[i]]]

executeLiquidationUncapped(s) ==
    IF ~s.selectedBorrower.ok \/ s.liquidateAmount = NoInput
       \/ ~s.isConnected \/ s.oraclePrice = 0
    THEN s
    ELSE
    LET repayAmount == parseUnits(s.liquidateAmount)
    IN  writeContract([s EXCEPT !.liquidateTxStep = "approving"], "liq",
                      "approve", "UPETH", repayAmount + (repayAmount \div 100),
                      0,
                      [NoNote EXCEPT !.repay = repayAmount,
                                     !.borrower = s.selectedBorrower.borrower])
\* lines 429-445
executeLiquidation(s) ==
    IF ~s.selectedBorrower.ok \/ s.liquidateAmount = NoInput
       \/ ~s.isConnected \/ s.oraclePrice = 0
    THEN s
    ELSE
    LET repayAmount == parseUnits(s.liquidateAmount)
        maxDebt     == s.selectedBorrower.borrowAssets
        approveAmount == IF repayAmount > maxDebt
                         THEN maxDebt + (maxDebt \div 100)
                         ELSE repayAmount + (repayAmount \div 100)
    IN  writeContract([s EXCEPT !.liquidateTxStep = "approving"], "liq",
                      "approve", "UPETH", approveAmount, 0,
                      [NoNote EXCEPT !.repay = repayAmount,
                                     !.borrower = s.selectedBorrower.borrower])

\* lines 458-474: the seize amount, capped to the debt and the collateral
cappedSeizeOf(liquidateAmt, freshPosition, price) ==
    LET maxRepayAmount == freshPosition.borrowAssets
        repayAmount    == Min(parseUnits(liquidateAmt), maxRepayAmount)
        seizeAmount    ==
            (repayAmount * ORACLE_PRICE_SCALE * LIQUIDATION_INCENTIVE)
                \div (price * 100)
    IN  Min(seizeAmount, freshPosition.collateral)

\* line 484: the safety margin
seizeAmountOf(capped) == (capped * SAFETY_MARGIN) \div 100

\* line 451: the position the sizer works on
freshPosition(s, c, fresh) == checkBorrowerPosition(c, c.borrower, fresh)

\* lines 447-449: executeLiquidationAfterApprove up to its await; the
\* closure keeps the borrower, the amount, the price and the market totals
executeLiquidationAfterApprove(r, a) ==
    IF ~r.selectedBorrower.ok \/ r.liquidateAmount = NoInput
       \/ r.oraclePrice = 0
    THEN a
    ELSE IF Len(a.liqReads) >= MaxReads THEN a
    ELSE [a EXCEPT !.liqReads = Append(@,
            [borrower |-> r.selectedBorrower.borrower,
             liquidateAmount |-> r.liquidateAmount,
             oraclePrice |-> r.oraclePrice, marketData |-> r.marketData])]

\* lines 451-492: executeLiquidationAfterApprove resumed
executeLiquidationResume(s, c, fresh) ==
    LET position    == freshPosition(s, c, fresh)
        capped      == cappedSeizeOf(c.liquidateAmount, position,
                                     c.oraclePrice)
        seizeAmount == seizeAmountOf(capped)
    IN
    IF ~position.ok
    THEN [s EXCEPT !.errorMessage = "FailedToFetchPositionData",
                   !.liquidateTxStep = "idle"]
    ELSE IF capped = 0
    THEN [s EXCEPT !.errorMessage = "NoCollateralToSeize",
                   !.liquidateTxStep = "idle"]
    ELSE writeContract([s EXCEPT !.liquidateTxStep = "liquidating"],
                       "liq", "liquidate", c.borrower, seizeAmount, 0,
                       [NoNote EXCEPT !.repay = parseUnits(c.liquidateAmount),
                                      !.fresh = fresh,
                                      !.oraclePrice = c.oraclePrice,
                                      !.marketData = c.marketData])

\* lines 519-526: the borrower's entry refreshed after a liquidation
refreshEntry(s, c, fresh) ==
    LET pos  == checkBorrowerPosition(c, c.borrower, fresh)
        prev == s.liquidatablePositions
    IN  IF ~pos.ok THEN s
        ELSE [s EXCEPT !.liquidatablePositions =
                [i \in 1..Len(prev) |->
                    IF prev[i].borrower = pos.borrower THEN pos ELSE prev[i]]]

\* lines 1536-1549: the Claim Tokens button
claimTokens(s) ==
    IF ~s.isConnected THEN s
    ELSE writeContract([s EXCEPT !.faucetTxStep = "claiming"], "faucet",
                       "claim", "FAUCET", 0, 0, NoNote)

\* ------------------------------------------------------------------ effects
schedule(jobs) ==
    IF jobs.refetch + jobs.timer >= MaxJobs THEN jobs
    ELSE [jobs EXCEPT !.refetch = @ + 1]

\* lines 197-215
writeErrorEffect(r, a) ==
    IF writeError(r)
    THEN [resetWrite(clearRefs(setTxStep(a, "idle"))) EXCEPT
            !.executionStatus = "idle", !.liquidateTxStep = "idle",
            !.errorMessage = "TransactionCancelled"]
    ELSE a

\* lines 218-227
txErrorEffect(r, a) ==
    IF isTxError(r)
    THEN [resetWrite(setTxStep(a, "idle")) EXCEPT
            !.executionStatus = "idle", !.liquidateTxStep = "idle",
            !.errorMessage = "TransactionFailedOnChain"]
    ELSE a

\* lines 260-307, up to the Promise.all it starts
\* line 307: the dependencies of the success effect (the refetch functions
\* keep their identity)
successDeps(s) == << isTxSuccess(s), s.txStep, s.faucetTxStep >>

txSuccessEffect(p, r, a) ==
    IF successDeps(p) = successDeps(r) THEN a
    ELSE IF ~isTxSuccess(r) THEN a
    ELSE IF r.txStep = "approving"
    THEN resetWrite(setTxStep(a, "approved"))
    ELSE IF r.txStep = "supplying_collateral"
    THEN resetWrite(setTxStep(a, "collateral_supplied"))
    ELSE IF r.txStep \in {"borrowing", "executing"}
    THEN [a EXCEPT !.executionStatus = "confirmed",
                   !.resetJobs = schedule(@)]
    ELSE IF r.faucetTxStep = "claiming"
    THEN [a EXCEPT !.faucetTxStep = "claimed", !.faucetJobs = schedule(@)]
    ELSE a

\* lines 278-289: the delayed reset
delayedReset(s) ==
    resetWrite(clearRefs([setTxStep(s, "idle") EXCEPT
        !.executionStatus = "idle", !.inputAmount = NoInput,
        !.collateralAmount = NoInput, !.simulatedHF = NULL]))

\* lines 309-335
positionEffect(r, a) ==
    IF r.positionData.ok /\ r.marketData.ok
    THEN [a EXCEPT !.userPosition =
            [supplyShares |-> r.positionData.supplyShares,
             borrowShares |-> r.positionData.borrowShares,
             collateral   |-> r.positionData.collateral,
             supplyAssets |-> ToNumber(assetsFromShares(
                 r.positionData.supplyShares, r.marketData.totalSupplyAssets,
                 r.marketData.totalSupplyShares)),
             borrowAssets |-> ToNumber(assetsFromShares(
                 r.positionData.borrowShares, r.marketData.totalBorrowAssets,
                 r.marketData.totalBorrowShares))]]
    ELSE a

\* lines 338-358: the Health Factor shown for the existing position
currentHFUnclamped(price, position) ==
    IF price # 0 /\ position.collateral > 0 /\ position.borrowAssets > 0
    THEN ToNumber((maxBorrowOf(position.collateral, price) * WAD)
                      \div position.borrowAssets)
    ELSE NULL
currentHFOf(price, position) ==
    IF price # 0 /\ position.collateral > 0 /\ position.borrowAssets > 0
    THEN LET maxBorrow == maxBorrowOf(position.collateral, price)
             hf == ToNumber((maxBorrow * WAD) \div position.borrowAssets)
         IN  IF hf > HF_CLAMP * WAD THEN HF_CLAMP * WAD ELSE hf
    ELSE NULL

\* line 530: the dependencies of the liquidation success effect
liqDeps(s) == << isTxSuccess(s), s.liquidateTxStep, s.selectedBorrower,
                 s.oraclePrice, s.marketData >>

\* lines 496-530, up to the promises it starts
liquidationEffect(p, r, a) ==
    IF liqDeps(p) = liqDeps(r) THEN a
    ELSE IF isTxSuccess(r) /\ r.liquidateTxStep = "approving"
    THEN executeLiquidationAfterApprove(r, a)
    ELSE IF isTxSuccess(r) /\ r.liquidateTxStep = "liquidating"
    THEN [a EXCEPT !.liquidateTxStep = "success",
                   !.selectedBorrower = NoBorrower,
                   !.liquidateAmount = NoInput,
                   !.liqRefresh =
                       IF Len(@) >= MaxReads THEN @
                       ELSE Append(@, [phase |-> "refetch",
                                       borrower |-> r.selectedBorrower.borrower,
                                       oraclePrice |-> r.oraclePrice,
                                       marketData |-> r.marketData])]
    ELSE a

\* the effects of one render r (p is the render before it), in the order of
\* the source; each reads the values of its render
Effects(p, r) ==
    liquidationEffect(p, r,
        positionEffect(r,
            txSuccessEffect(p, r,
                txErrorEffect(r,
                    writeErrorEffect(r, r)))))

\* renders and effects until nothing rendered changes
RECURSIVE Settle(_, _, _)
Settle(p, r, fuel) ==
    LET a == Effects(p, r) IN
    IF fuel = 0 \/ View(a) = View(r) THEN a ELSE Settle(r, a, fuel - 1)

\* an event leaves the component in state s: React renders if something
\* rendered changed, and runs the effects
Step(s) == IF View(s) = View(Cur) THEN Commit(s)
           ELSE Commit(Settle(Cur, s, 6))


\* ------------------------------------------------------------ input domains
M1 == [ok |-> TRUE, totalSupplyAssets |-> 4000, totalSupplyShares |-> 4000,
       totalBorrowAssets |-> 2000, totalBorrowShares |-> 2000]
\* the same market after interest accrued
M2 == [M1 EXCEPT !.totalBorrowAssets = 2006]
Position(supplyShares, borrowShares, collateral) ==
    [ok |-> TRUE, supplyShares |-> supplyShares,
     borrowShares |-> borrowShares, collateral |-> collateral]
\* what market(id) and position(id, user) may return at one tick of their
\* 5 s polls
Chain(market, position) ==
    [market |-> market, position |-> position, balance |-> 2000]
ChainSet ==
    { Chain(M1, Position(1000, 0, 2000)), Chain(M1, Position(0, 1000, 2000)),
      Chain(M2, Position(0, 1000, 2000)), Chain(M1, Position(0, 0, 0)) }
\* what price() may return
PriceSet == {5, 10}
\* what the user may type into the amount inputs and the collateral input
\* (whole numbers of wei)
InputSet == {500, 2000}
CollateralSet == {2000}
\* what a position read at submit time may return (ok = FALSE: it failed)
FreshSet == { Position(0, 0, 2000), Position(0, 1000, 2000),
              Position(0, 1000, 400), Position(0, 1, 501), NoPosition }
\* what the liquidator may type as repay amount (1: the smallest amount)
LiquidateInputSet == {1} \cup InputSet
\* borrower addresses the user may enter, and what their positions may be
AddressSet == {"0xab", "0xAB", "0xcd"}
BorrowerSet == { Position(0, 1001, 1060), Position(0, 500, 2000),
                 Position(0, 0, 0), NoPosition }

\* --------------------------------------------------------------------- Init
Init ==
    /\ isConnected = FALSE
    /\ currentView = "dashboard" /\ selection = "null"
    /\ actionMode = "supply"
    /\ inputAmount = NoInput /\ collateralAmount = NoInput
    /\ simulatedHF = NULL
    /\ executionStatus = "idle" /\ txStep = "idle"
    /\ approvedCollateralRef = 0 /\ borrowAmountRef = 0
    /\ isFullRepayRef = FALSE
    /\ upethBalance = 0 /\ upkrwBalance = 0
    /\ userPosition = [supplyShares |-> 0, borrowShares |-> 0,
                       collateral |-> 0, supplyAssets |-> 0,
                       borrowAssets |-> 0]
    /\ liquidatablePositions = << >>
    /\ selectedBorrower = NoBorrower /\ liquidateAmount = NoInput
    /\ liquidateTxStep = "idle" /\ faucetTxStep = "idle"
    /\ errorMessage = "null"
    /\ positionData = NoPosition /\ marketData = NoMarket
    /\ oraclePrice = 0 /\ hasClaimedData = FALSE
    /\ wr = "idle"
    /\ withdrawRead = NoRead /\ liqReads = << >>
    /\ resetJobs = [refetch |-> 0, timer |-> 0]
    /\ faucetJobs = [refetch |-> 0, timer |-> 0]
    /\ liqRefresh = << >> /\ checkRead = NoCheck
    /\ ownTx = FALSE /\ lastTx = NoTx

\* ------------------------------------------------------- the wallet session
Connect == /\ ~isConnected
           /\ Step([Cur EXCEPT !.isConnected = TRUE])

\* lines 148-178: the reads that take the address lose their data
Disconnect ==
    /\ isConnected
    /\ Step([Cur EXCEPT !.isConnected = FALSE, !.positionData = NoPosition,
                        !.hasClaimedData = FALSE])

\* ------------------------------------------------------------ polled reads
\* the data of the market, position and balance reads after a tick
\* (lines 119-126, 144-169); lines 255-258 turn the balances into Numbers
delivered(s, k) ==
    [s EXCEPT !.marketData = k.market,
              !.positionData = IF s.isConnected THEN k.position ELSE @,
              !.upethBalance = IF s.isConnected THEN ToNumber(k.balance) ELSE @,
              !.upkrwBalance = IF s.isConnected THEN ToNumber(k.balance) ELSE @]
Poll(K) == \E k \in K : /\ delivered(Cur, k) # Cur
                        /\ Step(delivered(Cur, k))
\* lines 128-134
PollOracle(P) == \E x \in P : /\ x # oraclePrice
                              /\ Step([Cur EXCEPT !.oraclePrice = x])

\* ------------------------------------------------- wallet and receipt events
WalletSigns == wr = "signing" /\ Step([Cur EXCEPT !.wr = "mining"])
WalletRejects == wr = "signing" /\ Step([Cur EXCEPT !.wr = "rejected"])
ReceiptSuccess == wr = "mining" /\ Step([Cur EXCEPT !.wr = "confirmed"])
ReceiptReverts == wr = "mining" /\ Step([Cur EXCEPT !.wr = "reverted"])

\* ------------------------------------------------------ promises and timers
\* lines 272-277: the refetches of a confirmed step resolve
RefetchResolves(K) ==
    /\ resetJobs.refetch > 0
    /\ \E k \in K :
          Step(delivered([Cur EXCEPT !.resetJobs =
                             [refetch |-> @.refetch - 1,
                              timer |-> @.timer + 1]], k))
\* lines 279-289
ResetTimerFires ==
    /\ resetJobs.timer > 0
    /\ Step(delayedReset([Cur EXCEPT !.resetJobs.timer = @ - 1]))
\* lines 295-299
FaucetRefetchResolves ==
    /\ faucetJobs.refetch > 0
    /\ Step([Cur EXCEPT !.faucetJobs = [refetch |-> @.refetch - 1,
                                        timer |-> @.timer + 1],
                        !.hasClaimedData = isConnected])
\* lines 300-303
FaucetTimerFires ==
    /\ faucetJobs.timer > 0
    /\ Step(resetWrite([Cur EXCEPT !.faucetJobs.timer = @ - 1,
                                   !.faucetTxStep = "idle"]))
\* line 687: the position read of executeWithdraw returns
WithdrawReadResolves(F) ==
    /\ withdrawRead.active
    /\ \E fresh \in F :
          Step(withdrawCollateralResume(Cur, withdrawRead, fresh))
RemoveAt(q, i) == [j \in 1..(Len(q) - 1) |-> IF j < i THEN q[j] ELSE q[j + 1]]
\* line 451: the position read of executeLiquidationAfterApprove returns
LiqReadResolves(F) ==
    \E i \in 1..Len(liqReads), fresh \in F :
        Step(executeLiquidationResume(
                [Cur EXCEPT !.liqReads = RemoveAt(@, i)], liqReads[i], fresh))
\* lines 512-517
LiqRefreshRefetched(K) ==
    \E i \in 1..Len(liqRefresh), k \in K :
        /\ liqRefresh[i].phase = "refetch"
        /\ Step(delivered([Cur EXCEPT !.liqRefresh[i].phase = "read"], k))
\* lines 519-526
LiqRefreshRead(F) ==
    \E i \in 1..Len(liqRefresh), fresh \in F :
        /\ liqRefresh[i].phase = "read"
        /\ Step(refreshEntry([Cur EXCEPT !.liqRefresh = RemoveAt(@, i)],
                             liqRefresh[i], fresh))
\* line 412: the position read of handleCheckBorrower returns
CheckReadResolves(F) ==
    /\ checkRead.active
    /\ \E fresh \in F :
          Step(handleCheckBorrowerResume(Cur, checkRead, fresh))
\* lines 213 / 224 / 622 / 736 / 1717: the notice times out or is dismissed
ClearError == /\ errorMessage # "null"
              /\ Step([Cur EXCEPT !.errorMessage = "null"])

\* ------------------------------------------------------------- user events
\* lines 1030-1032
Navigate(Pages) == \E page \in Pages : /\ page # currentView
                                        /\ Step(navigate(Cur, page))
\* lines 1180 / 1190 / 1216
SelectMarket(Markets) ==
    /\ currentView = "dashboard"
    /\ \E m \in Markets : Step(selectMarket(Cur, m))
\* line 1795
Cancel == selection # "null" /\ Step(selectMarket(Cur, "null"))
\* lines 1623 / 1626
ToggleActionMode(Modes) ==
    /\ selection # "null"
    /\ \E mode \in Modes : /\ mode # actionMode \/ txStep # "idle"
                          /\ Step(toggleActionMode(Cur, mode))
\* line 1651
TypeAmount(V) ==
    /\ selection # "null"
    /\ \E v \in V \cup {NoInput} : /\ v # inputAmount
                                          /\ Step(simulate(Cur, v))
\* line 1652
ClickMax ==
    /\ selection # "null" /\ isConnected /\ getMaxAmount(Cur) # 0
    /\ Step(simulate(Cur, getMaxAmount(Cur)))
\* line 1665
TypeCollateral(V) ==
    /\ selection = "UPETH_BORROW" /\ actionMode = "supply"
    /\ \E v \in V \cup {NoInput} :
          /\ v # collateralAmount
          /\ Step(changeCollateral(Cur, v))
\* line 1666
ClickCollateralMax ==
    /\ selection = "UPETH_BORROW" /\ actionMode = "supply"
    /\ isConnected /\ upkrwBalance # 0
    /\ Step(changeCollateral(Cur, upkrwBalance))
\* line 1767
ClickButton ==
    /\ selection # "null" /\ ~isButtonDisabled(Cur)
    /\ Step(handleButtonClick(Cur))
\* lines 1268-1274
CheckBorrower(A) ==
    /\ currentView = "liquidate" /\ ~checkRead.active
    /\ \E b \in A :
          /\ inList(liquidatablePositions, b)
                \/ Len(liquidatablePositions) < MaxList
          /\ Step(handleCheckBorrower(Cur, b))
\* lines 1332-1339
SelectBorrower ==
    /\ currentView = "liquidate"
    /\ \E i \in 1..Len(liquidatablePositions) :
          /\ liquidatablePositions[i].healthFactor < WAD
          /\ Step([Cur EXCEPT !.selectedBorrower = liquidatablePositions[i]])
\* line 1357
CloseLiquidationPanel ==
    /\ currentView = "liquidate" /\ selectedBorrower.ok
    /\ Step([Cur EXCEPT !.selectedBorrower = NoBorrower])
\* lines 1390 / 1395
TypeLiquidateAmount(V) ==
    /\ currentView = "liquidate" /\ selectedBorrower.ok
    /\ \E v \in V \cup {NoInput, selectedBorrower.borrowAssets} :
          /\ v # liquidateAmount
          /\ Step([Cur EXCEPT !.liquidateAmount = v])
\* lines 1440-1442
ClickExecuteLiquidation ==
    /\ currentView = "liquidate" /\ selectedBorrower.ok
    /\ liquidateTxStep # "success"
    /\ ~(liquidateAmount = NoInput \/ liquidateTxStep # "idle"
         \/ ~isConnected \/ oraclePrice = 0)
    /\ Step(executeLiquidation(Cur))
\* line 1433
ClickNewLiquidation ==
    /\ currentView = "liquidate" /\ selectedBorrower.ok
    /\ liquidateTxStep = "success"
    /\ Step([Cur EXCEPT !.liquidateTxStep = "idle"])
\* lines 1524-1550
ClickClaim ==
    /\ currentView = "faucet" /\ isConnected /\ ~hasClaimedData
    /\ ~(faucetTxStep = "claiming" \/ isTxPending(Cur))
    /\ Step(claimTokens(Cur))

\* ------------------------------------------------------------ specifications
\* the wallet, the receipts and the notice, as every view has them
Wallet == Connect \/ WalletSigns \/ ReceiptSuccess \/ ClearError
Failures == WalletRejects \/ ReceiptReverts

\* borrowing against existing and new collateral
BorrowChain ==
    { k \in ChainSet : k.market = M1 /\ k.position.supplyShares = 0 }
NextBorrow ==
    \/ Wallet \/ Failures
    \/ Poll(BorrowChain) \/ PollOracle({10})
    \/ RefetchResolves(BorrowChain) \/ ResetTimerFires
    \/ SelectMarket({"UPETH_BORROW"})
    \/ TypeAmount(InputSet) \/ ClickMax
    \/ TypeCollateral(CollateralSet) \/ ClickCollateralMax
    \/ ClickButton
SpecBorrow == Init /\ [][NextBorrow]_vars

\* repaying a debt, in part and in full
DebtSet == { k \in ChainSet : k.position.borrowShares > 0 }
NextRepay ==
    \/ Connect \/ WalletSigns \/ ReceiptSuccess
    \/ Poll(DebtSet) \/ PollOracle({10})
    \/ RefetchResolves(DebtSet) \/ ResetTimerFires
    \/ SelectMarket({"UPETH_BORROW"}) \/ ToggleActionMode({"withdraw"})
    \/ TypeAmount({500}) \/ ClickMax
    \/ ClickButton
SpecRepay == Init /\ [][NextRepay]_vars

\* supplying and withdrawing collateral
CollateralChain ==
    { k \in ChainSet : k.market = M1 /\ k.position.borrowShares > 0 }
NextWithdraw ==
    \/ Wallet
    \/ Poll(CollateralChain) \/ PollOracle({10})
    \/ RefetchResolves(CollateralChain) \/ ResetTimerFires
    \/ WithdrawReadResolves(FreshSet)
    \/ SelectMarket({"UPKRW"}) \/ ToggleActionMode({"withdraw"})
    \/ TypeAmount({500})
    \/ ClickButton
SpecWithdraw == Init /\ [][NextWithdraw]_vars

\* the three views on the one write hook
OneChain == { k \in ChainSet : k.position.collateral = 0 }
NextShared ==
    \/ Connect \/ WalletSigns \/ ReceiptSuccess
    \/ Poll(OneChain) \/ PollOracle({10})
    \/ RefetchResolves(OneChain) \/ ResetTimerFires
    \/ FaucetRefetchResolves \/ FaucetTimerFires
    \/ Navigate({"dashboard", "faucet"})
    \/ SelectMarket({"UPETH_BORROW"}) \/ Cancel
    \/ TypeAmount({500}) \/ TypeCollateral(CollateralSet)
    \/ ClickButton \/ ClickClaim
SpecShared == Init /\ [][NextShared]_vars

\* the liquidation view
NextLiquidate ==
    \/ Wallet
    \/ Poll(OneChain) \/ PollOracle({10})
    \/ Navigate({"liquidate"})
    \/ CheckBorrower({"0xab"}) \/ CheckReadResolves(BorrowerSet)
    \/ SelectBorrower \/ CloseLiquidationPanel
    \/ TypeLiquidateAmount(LiquidateInputSet)
    \/ ClickExecuteLiquidation \/ LiqReadResolves(BorrowerSet)
    \/ LiqRefreshRefetched(OneChain) \/ LiqRefreshRead(BorrowerSet)
    \/ ClickNewLiquidation
SpecLiquidate == Init /\ [][NextLiquidate]_vars

\* a liquidation and a faucet claim
NextCross ==
    \/ Wallet \/ Poll(OneChain) \/ PollOracle({10})
    \/ Navigate({"liquidate", "faucet"})
    \/ CheckBorrower({"0xab"})
    \/ CheckReadResolves({Position(0, 1001, 1060)})
    \/ SelectBorrower \/ TypeLiquidateAmount({500})
    \/ ClickExecuteLiquidation \/ LiqReadResolves(BorrowerSet)
    \/ ClickClaim \/ FaucetRefetchResolves \/ FaucetTimerFires
SpecCross == Init /\ [][NextCross]_vars

\* the tracked borrowers: checks and re-checks of addresses in either case,
\* and the refresh after a liquidation
DebtorSet == { f \in BorrowerSet : f.borrowShares > 0 }
NextList ==
    \/ Connect \/ WalletSigns \/ ReceiptSuccess
    \/ Poll(OneChain) \/ PollOracle({10})
    \/ Navigate({"liquidate"})
    \/ CheckBorrower(AddressSet) \/ CheckReadResolves(DebtorSet)
    \/ SelectBorrower \/ TypeLiquidateAmount({})
    \/ ClickExecuteLiquidation
    \/ LiqReadResolves({Position(0, 1001, 1060)})
    \/ LiqRefreshRefetched(OneChain)
    \/ LiqRefreshRead({Position(0, 500, 2000)})
    \/ ClickNewLiquidation
SpecList == Init /\ [][NextList]_vars

\* a supply of the loan token and a faucet claim, with their failures
NextFaucet ==
    \/ Wallet \/ Failures
    \/ Poll(OneChain) \/ PollOracle({10})
    \/ RefetchResolves(OneChain) \/ ResetTimerFires
    \/ FaucetRefetchResolves \/ FaucetTimerFires
    \/ Navigate({"dashboard", "faucet"})
    \/ SelectMarket({"UPETH"}) \/ TypeAmount({500})
    \/ ClickButton \/ ClickClaim
SpecFaucet == Init /\ [][NextFaucet]_vars

\* the amount input of a supply, a withdrawal and a borrow: empty, zero,
\* within the maximum, above it, and above it by less than a Number resolves
SupplierChain ==
    { Chain(M1, Position(1000, 0, 0)), Chain(M1, Position(1000, 0, 2000)) }
AmountSet == {0, 500, 2001, 3000}
NextInput ==
    \/ Connect \/ WalletSigns \/ ReceiptSuccess
    \/ Poll(SupplierChain) \/ PollOracle({10})
    \/ RefetchResolves(SupplierChain) \/ ResetTimerFires
    \/ SelectMarket({"UPETH", "UPETH_BORROW"})
    \/ ToggleActionMode({"withdraw"})
    \/ TypeAmount(AmountSet) \/ TypeCollateral({0})
    \/ ClickButton
SpecInput == Init /\ [][NextInput]_vars

\* a borrow with new collateral within and above the wallet's UPKRW balance
OverCollateralSet == {2000, 3000}
NextCollateral ==
    \/ Connect \/ WalletSigns \/ ReceiptSuccess
    \/ Poll(BorrowChain) \/ PollOracle({10})
    \/ RefetchResolves(BorrowChain) \/ ResetTimerFires
    \/ SelectMarket({"UPETH_BORROW"})
    \/ TypeAmount({500}) \/ TypeCollateral(OverCollateralSet)
    \/ ClickButton
SpecCollateral == Init /\ [][NextCollateral]_vars

\* a withdrawal of collateral whose wallet disconnects and reconnects
NextSession ==
    \/ Connect \/ Disconnect \/ WalletSigns \/ ReceiptSuccess
    \/ Poll(CollateralChain) \/ PollOracle({10})
    \/ RefetchResolves(CollateralChain) \/ ResetTimerFires
    \/ WithdrawReadResolves({Position(0, 0, 2000)})
    \/ SelectMarket({"UPKRW"}) \/ ToggleActionMode({"withdraw"})
    \/ TypeAmount({500}) \/ ClickButton
SpecSession == Init /\ [][NextSession]_vars

\* a repayment whose debt may be gone from the position before it executes
SettledSet == { k \in ChainSet : k.position.supplyShares = 0 }
NextSettled ==
    \/ Connect \/ WalletSigns \/ ReceiptSuccess
    \/ Poll(SettledSet) \/ PollOracle({10})
    \/ RefetchResolves(SettledSet) \/ ResetTimerFires
    \/ SelectMarket({"UPETH_BORROW"}) \/ ToggleActionMode({"withdraw"})
    \/ TypeAmount({1000})
    \/ ClickButton
SpecSettled == Init /\ [][NextSettled]_vars

\* the repayment of a debt of a few wei
DustChain == { Chain(M1, Position(0, 50, 2000)) }
NextDust ==
    \/ Connect \/ WalletSigns \/ ReceiptSuccess
    \/ Poll(DustChain) \/ PollOracle({10})
    \/ RefetchResolves(DustChain) \/ ResetTimerFires
    \/ SelectMarket({"UPETH_BORROW"}) \/ ToggleActionMode({"withdraw"})
    \/ TypeAmount({20, 50}) \/ ClickButton
SpecDust == Init /\ [][NextDust]_vars

\* a liquidation with two liquidatable borrowers in the list
UnhealthySet == { Position(0, 1001, 1060) }
NextTarget ==
    \/ Connect \/ WalletSigns \/ ReceiptSuccess
    \/ Poll(OneChain) \/ PollOracle({10})
    \/ Navigate({"liquidate"})
    \/ CheckBorrower({"0xab", "0xcd"}) \/ CheckReadResolves(UnhealthySet)
    \/ SelectBorrower \/ CloseLiquidationPanel
    \/ TypeLiquidateAmount({2000})
    \/ ClickExecuteLiquidation \/ LiqReadResolves(UnhealthySet)
SpecTarget == Init /\ [][NextTarget]_vars
\* line 451: the oldest outstanding position read returns (the steps of
\* LiqReadResolves on the head of the queue)
ReadReturns == liqReads # << >> /\ liqReads' = Tail(liqReads)
\* the same with the scheduling the runtime gives: a position read that was
\* started returns
SpecTargetLive == SpecTarget /\ WF_liqReads(ReadReturns)

\* a borrow on posted collateral while the oracle price moves
StaleChain == { Chain(M1, Position(0, 1000, 2000)) }
NextStale ==
    \/ Connect \/ WalletSigns \/ ReceiptSuccess
    \/ Poll(StaleChain) \/ PollOracle(PriceSet)
    \/ RefetchResolves(StaleChain) \/ ResetTimerFires
    \/ SelectMarket({"UPETH_BORROW"})
    \/ TypeAmount({500}) \/ ClickButton
SpecStale == Init /\ [][NextStale]_vars

\* the position and price reads alone, over positions with and without
\* debt and collateral
HealthChainSet ==
    { Chain(mk, Position(0, b, c)) :
        mk \in {M1, M2}, b \in {0, 1, 1000, 1001}, c \in {0, 1, 1000, 2000} }
NextHealth ==
    \/ Connect \/ Disconnect \/ Poll(HealthChainSet) \/ PollOracle(PriceSet)
SpecHealth == Init /\ [][NextHealth]_vars

\* the position accounting alone, over markets with and without shares on
\* either side and over share counts the totals do not divide
AccountMarketSet ==
    { M1, M2,
      [ok |-> TRUE, totalSupplyAssets |-> 2, totalSupplyShares |-> 1001,
       totalBorrowAssets |-> 10, totalBorrowShares |-> 3],
      [ok |-> TRUE, totalSupplyAssets |-> 0, totalSupplyShares |-> 0,
       totalBorrowAssets |-> 10, totalBorrowShares |-> 3],
      [ok |-> TRUE, totalSupplyAssets |-> 4000, totalSupplyShares |-> 4000,
       totalBorrowAssets |-> 0, totalBorrowShares |-> 0] }
AccountChainSet ==
    { Chain(mk, Position(s, b, 0)) :
        mk \in AccountMarketSet, s \in {0, 1, 1001}, b \in {0, 1, 1000} }
NextAccount ==
    \/ Connect \/ Disconnect \/ Poll(AccountChainSet)
SpecAccount == Init /\ [][NextAccount]_vars

\* the simulated Health Factor around the largest debt the collateral
\* supports: positions with a debt at, below and above it, and small and
\* large amounts typed on top
BoundaryChainSet ==
    { Chain(M1, Position(0, b, 1000)) : b \in {0, 460, 920} }
BoundaryInputSet == {1, 4, 460, 920}
NextBoundary ==
    \/ Connect \/ Poll(BoundaryChainSet) \/ PollOracle(PriceSet)
    \/ SelectMarket({"UPETH_BORROW"})
    \/ TypeAmount(BoundaryInputSet) \/ TypeCollateral({1000})
SpecBoundary == Init /\ [][NextBoundary]_vars

\* ------------------------------------------------------------------- claims
\* the orchestrator, the liquidation or the faucet calls writeContract
Written == lastTx' # lastTx /\ lastTx' # NoTx
MainWritten == Written /\ lastTx'.owner = "main"
NoCollateralEntered ==
    collateralAmount = NoInput \/ parseFloat(collateralAmount) = 0

\* C1: no borrow is submitted, from idle or as the third step after
\* collateral_supplied, while the simulated Health Factor is below 1.0
C1_BorrowGate ==
    [][(Written /\ lastTx'.fn = "borrow")
        => ~(simulatedHF # NULL /\ simulatedHF < WAD)]_vars
\* the third step is held back by the gate alone
C1_Witness ==
    /\ txStep = "collateral_supplied" /\ isConnected /\ wr = "idle"
    /\ executionStatus = "idle" /\ borrowAmountRef > 0
    /\ inputAmount # NoInput /\ inputAmount <= upethBalance
    /\ simulatedHF # NULL /\ simulatedHF < WAD

\* C3: a rejection or a revert leaves txStep idle, the three buffers cleared
\* and an error message set
Rejected == wr = "signing" /\ wr' = "idle"
               /\ errorMessage' = "TransactionCancelled"
Reverted == wr = "mining" /\ wr' = "idle"
               /\ errorMessage' = "TransactionFailedOnChain"
C3_FailureResets ==
    [][(Rejected \/ Reverted)
        => /\ txStep' = "idle" /\ errorMessage' # "null"
           /\ approvedCollateralRef' = 0 /\ borrowAmountRef' = 0
           /\ isFullRepayRef' = FALSE]_vars

\* C6: with posted collateral and no new collateral a borrow is idle ->
\* borrowing -> idle, one borrow call, no approve and no supplyCollateral
C6_BorrowOnExisting ==
    [][/\ (/\ selection = "UPETH_BORROW" /\ actionMode = "supply"
           /\ txStep = "idle" /\ userPosition.collateral > 0
           /\ NoCollateralEntered /\ MainWritten)
          => (lastTx'.fn = "borrow" /\ txStep' = "borrowing")
       /\ txStep = "borrowing"
          => (txStep' \in {"borrowing", "idle"} /\ ~MainWritten)]_vars
\* such a borrow is confirmed
C6_Witness ==
    /\ txStep = "borrowing" /\ executionStatus = "confirmed"
    /\ approvedCollateralRef = 0 /\ userPosition.collateral > 0
    /\ collateralAmount = NoInput /\ lastTx.fn = "borrow"

\* C7: the full-repayment flag is set at repay initiation exactly when the
\* entered amount is at least the known debt; the execute step calls repay
\* with (0, borrow shares) when the flag is set, with (amount, 0) otherwise
RepayInitiated ==
    /\ selection = "UPETH_BORROW" /\ actionMode = "withdraw"
    /\ txStep = "idle" /\ MainWritten /\ lastTx'.fn = "approve"
C7_FullRepayFlag ==
    [][/\ RepayInitiated
          => /\ isFullRepayRef'
                 = (parseUnits(inputAmount) >= userPosition.borrowAssets)
             /\ approvedCollateralRef' = parseUnits(inputAmount)
       /\ (Written /\ lastTx'.fn = "repay")
          => /\ txStep = "approved" /\ txStep' = "executing"
             /\ IF isFullRepayRef
                THEN /\ lastTx'.assets = 0
                     /\ lastTx'.shares = userPosition.borrowShares
                ELSE /\ lastTx'.assets = approvedCollateralRef
                     /\ lastTx'.shares = 0]_vars
\* a repayment of exactly the known debt goes out as a repayment by shares
C7_Witness ==
    /\ lastTx.fn = "repay" /\ lastTx.assets = 0 /\ lastTx.shares > 0
    /\ isFullRepayRef /\ txStep = "executing"
    /\ approvedCollateralRef = userPosition.borrowAssets

\* C4: approving -> approved, supplying_collateral -> collateral_supplied and
\* the completion of a borrowing or executing step happen only on the success
\* receipt of the transaction submitted in that step
StepAdvanced ==
    \/ txStep = "approving" /\ txStep' = "approved"
    \/ txStep = "supplying_collateral" /\ txStep' = "collateral_supplied"
    \/ /\ txStep \in {"borrowing", "executing"}
       /\ executionStatus # "confirmed" /\ executionStatus' = "confirmed"
C4_AdvanceOnOwnReceipt ==
    [][StepAdvanced => (ownTx /\ wr = "mining" /\ lastTx.owner = "main")]_vars

\* C8: withdrawCollateral is submitted only if the debt of the re-fetched
\* position is at most maxBorrow(remaining collateral)
C8_WithdrawKeepsHealth ==
    [][(Written /\ lastTx'.fn = "withdrawCollateral")
        => LET note      == lastTx'.note
               remaining == note.fresh.collateral - lastTx'.assets
               debt      == assetsFromShares(note.fresh.borrowShares,
                                  note.marketData.totalBorrowAssets,
                                  note.marketData.totalBorrowShares)
           IN  debt <= maxBorrowOf(remaining, note.oraclePrice)]_vars

\* C2: no supply, withdraw, borrow, repay, liquidation or faucet claim is
\* started while a sequence of the orchestrator, of the liquidation or of
\* the faucet is in flight, whatever the view
SequenceStarted ==
    \/ txStep = "idle" /\ txStep' # "idle"
    \/ liquidateTxStep = "idle" /\ liquidateTxStep' = "approving"
    \/ faucetTxStep # "claiming" /\ faucetTxStep' = "claiming"
NothingInFlight ==
    /\ txStep = "idle" /\ faucetTxStep # "claiming"
    /\ liquidateTxStep \notin {"approving", "liquidating"}
C2_OneSequence == [][SequenceStarted => NothingInFlight]_vars

\* C5: a borrow with new collateral emits approve(collateral token), then
\* supplyCollateral, then borrow, each after the receipt of the one before,
\* with txStep going approving, approved, supplying_collateral,
\* collateral_supplied, borrowing, idle
Confirms(fn) ==
    /\ wr = "mining" /\ lastTx.owner = "main" /\ lastTx.fn = fn
    /\ lastTx' \in {lastTx, NoTx}
BorrowFlow == selection = "UPETH_BORROW" /\ actionMode = "supply"
\* the step moves on (a failure or a cancellation takes it back to idle)
Moved == txStep' \notin {txStep, "idle"}
BorrowSteps ==
    /\ (txStep = "idle" /\ MainWritten /\ ~NoCollateralEntered)
       => /\ lastTx'.fn = "approve" /\ lastTx'.token = "UPKRW"
          /\ txStep' = "approving"
    /\ (txStep = "approving" /\ Moved /\ BorrowFlow')
       => (txStep' = "approved" /\ Confirms("approve"))
    /\ (txStep = "approved" /\ Moved /\ BorrowFlow')
       => /\ txStep' = "supplying_collateral" /\ MainWritten
          /\ lastTx'.fn = "supplyCollateral"
    /\ (txStep = "supplying_collateral" /\ Moved /\ BorrowFlow')
       => (txStep' = "collateral_supplied" /\ Confirms("supplyCollateral"))
    /\ (txStep = "collateral_supplied" /\ Moved /\ BorrowFlow')
       => /\ txStep' = "borrowing" /\ MainWritten
          /\ lastTx'.fn = "borrow"
    /\ (txStep = "borrowing" /\ executionStatus # "confirmed"
          /\ executionStatus' = "confirmed")
       => Confirms("borrow")
    /\ (txStep \in {"approving", "supplying_collateral", "borrowing"})
       => ~MainWritten
ReadStarted == Len(liqReads') > Len(liqReads)
SizedFrom(c, fresh) ==
    LET position == checkBorrowerPosition(c, c.borrower, fresh)
    IN  /\ position.ok
        /\ lastTx'.assets =
              seizeAmountOf(cappedSeizeOf(c.liquidateAmount, position,
                                          c.oraclePrice))
C9_FreshPosition ==
    [][/\ ReadStarted
          => /\ wr' = "confirmed" /\ liquidateTxStep = "approving"
             /\ lastTx'.owner = "liq" /\ lastTx'.fn = "approve"
       /\ (Written /\ lastTx'.fn = "liquidate")
          => \E i \in 1..Len(liqReads) :
                /\ liqReads' = RemoveAt(liqReads, i)
                /\ SizedFrom(liqReads[i], lastTx'.note.fresh)]_vars

\* C10: the seize amount submitted is
\* floor(95/100 * min(collateral, floor(min(repay, debt) * ORACLE_SCALE * 105
\* / (oraclePrice * 100)))) for the debt and the collateral of the position
\* read
C10_SeizeAmount ==
    lastTx.fn = "liquidate" =>
        LET note  == lastTx.note
            debt  == assetsFromShares(note.fresh.borrowShares,
                                      note.marketData.totalBorrowAssets,
                                      note.marketData.totalBorrowShares)
            seize == (Min(note.repay, debt) * ORACLE_PRICE_SCALE * 105)
                        \div (note.oraclePrice * 100)
        IN  /\ note.oraclePrice > 0
            /\ lastTx.assets = (95 * Min(note.fresh.collateral, seize)) \div 100

\* C11: a liquidate call never carries a seize amount of zero
C11_NoZeroSeize == lastTx.fn = "liquidate" => lastTx.assets > 0

\* C12: no borrow is submitted while the simulated Health Factor is
\* undefined (no total borrow, no total collateral, or no oracle price yet)
C12_UndefinedNotHealthy ==
    [][(Written /\ lastTx'.fn = "borrow") => simulatedHF # NULL]_vars

\* C13: the Health Factor displayed for the existing position equals the
\* one calculateHealthFactor returns for it with nothing proposed, the
\* undefined case and the clamping included
C13_DisplayEqualsGate ==
    currentHFOf(oraclePrice, userPosition) = calculateHealthFactor(Cur, 0, 0)
\* a position whose Health Factor is clamped
C13_Witness ==
    /\ oraclePrice # 0 /\ userPosition.collateral > 0
    /\ userPosition.borrowAssets > 0
    /\ calculateHealthFactor(Cur, 0, 0) = HF_CLAMP * WAD
    /\ (maxBorrowOf(userPosition.collateral, oraclePrice) * WAD)
           \div userPosition.borrowAssets > HF_CLAMP * WAD

\* C14: the confirmation of a transaction whose sequence was abandoned
\* (Cancel, market re-selected, action mode toggled) changes nothing in the
\* orchestrator and is not taken for a sequence started afterwards
AbandonedConfirms ==
    /\ lastTx.owner = "main" /\ ~ownTx
    /\ wr = "mining" /\ wr' \in {"confirmed", "idle"}
    /\ errorMessage' = errorMessage
C14_LateConfirmationIgnored ==
    [][AbandonedConfirms
        => /\ txStep' = txStep /\ executionStatus' = executionStatus
           /\ resetJobs' = resetJobs
           /\ approvedCollateralRef' = approvedCollateralRef
           /\ borrowAmountRef' = borrowAmountRef
           /\ isFullRepayRef' = isFullRepayRef]_vars

\* C15: the delayed reset of a confirmed borrowing or executing step clears
\* txStep, the inputs and the buffers only once the refetches that the
\* confirmation started have all resolved
DelayedResetApplied == resetJobs'.timer = resetJobs.timer - 1
C15_ClearAfterRefetch ==
    [][(/\ DelayedResetApplied
        /\ txStep \in {"borrowing", "executing"}
        /\ executionStatus = "confirmed")
        => resetJobs.refetch = 0]_vars

\* C16: a supply of UPETH or UPKRW goes idle, approving, approved, executing,
\* idle: approve(token, amount) is submitted first, and supply (UPETH) or
\* supplyCollateral (UPKRW) only from the approved step, which is entered
\* only on the confirmed receipt of that approve
SupplyFlow == selection \in {"UPETH", "UPKRW"} /\ actionMode = "supply"
SupplyWritten ==
    MainWritten /\ lastTx'.fn \in {"approve", "supply", "supplyCollateral"}
SupplySteps ==
    /\ (txStep = "idle" /\ (Moved \/ SupplyWritten))
       => /\ txStep' = "approving" /\ MainWritten
          /\ lastTx'.fn = "approve" /\ lastTx'.token = selection
          /\ lastTx'.assets = parseUnits(inputAmount)
          /\ approvedCollateralRef' = lastTx'.assets
    /\ (txStep = "approving" /\ Moved)
       => (txStep' = "approved" /\ Confirms("approve"))
    /\ (txStep = "approved" /\ (Moved \/ SupplyWritten))
       => /\ txStep' = "executing" /\ MainWritten
          /\ lastTx'.fn = (IF selection = "UPETH" THEN "supply"
                           ELSE "supplyCollateral")
          /\ lastTx'.token = selection
          /\ lastTx'.assets = approvedCollateralRef
    /\ (txStep = "executing") => (~Moved /\ ~SupplyWritten)
    /\ (txStep = "approving") => ~SupplyWritten
C16_SupplySequence ==
    [][/\ (~SupplyFlow /\ SupplyFlow') => txStep' = "idle"
       /\ (SupplyFlow /\ SupplyFlow') => SupplySteps]_vars

\* C17: a collateral withdrawal whose freshly read position has debt and
\* less collateral than the requested amount is rejected: the notice is
\* shown, txStep is idle and nothing is submitted, so no withdrawCollateral
\* goes out for more than the posted collateral of an indebted position
WithdrawResumed == withdrawRead.active /\ ~withdrawRead'.active
ExceedsPosted(fresh) ==
    fresh.ok /\ fresh.borrowShares > 0 /\ withdrawRead.amount > fresh.collateral
C17_RejectExcessWithdrawal ==
    [][WithdrawResumed
        => /\ \A fresh \in FreshSet :
                ExceedsPosted(fresh)
                => LET r == withdrawCollateralResume(Cur, withdrawRead, fresh)
                   IN  /\ r.errorMessage = "DebtRemains"
                       /\ r.txStep = "idle" /\ r.lastTx = lastTx
           /\ Written => ~ExceedsPosted(lastTx'.note.fresh)
           /\ (~Written /\ errorMessage' = "DebtRemains")
              => txStep' = "idle"]_vars
\* a withdrawal of 500 from an indebted position has been rejected
C17_Witness ==
    /\ errorMessage = "DebtRemains" /\ txStep = "idle" /\ lastTx = NoTx
    /\ selection = "UPKRW" /\ actionMode = "withdraw"
    /\ inputAmount = 500 /\ ~withdrawRead.active
    /\ userPosition.borrowShares > 0

\* C18: when the refresh that follows a confirmed liquidate has re-read the
\* borrower's position, the borrower's entry is still in the list and
\* carries the collateral and the debt of that read; no entry is removed
RefreshRead ==
    /\ Len(liqRefresh') < Len(liqRefresh)
    /\ \E i \in 1..Len(liqRefresh) : liqRefresh[i].phase = "read"
EntryShows(list, borrower, fresh) ==
    \A j \in 1..Len(list) :
        list[j].borrower = borrower
        => /\ list[j].collateral = fresh.collateral
           /\ list[j].borrowShares = fresh.borrowShares
C18_EntryRefreshed ==
    [][RefreshRead
        => /\ Len(liquidatablePositions') = Len(liquidatablePositions)
           /\ \A i \in 1..Len(liqRefresh), fresh \in BorrowerSet :
                (liqRefresh[i].phase = "read" /\ fresh.ok)
                => LET r == refreshEntry(Cur, liqRefresh[i], fresh)
                   IN  /\ Len(r.liquidatablePositions)
                              = Len(liquidatablePositions)
                       /\ EntryShows(r.liquidatablePositions,
                                     liqRefresh[i].borrower, fresh)]_vars

\* C19: the tracked list never holds two entries whose addresses are equal
\* up to case; checking an address again replaces its entry in place
C19_NoDuplicateBorrower ==
    \A i, j \in 1..Len(liquidatablePositions) :
        i # j => toLowerCase(liquidatablePositions[i].borrower)
                    # toLowerCase(liquidatablePositions[j].borrower)
\* the entry selected as 0xab has been checked again as 0xAB and replaced
C19_Witness ==
    /\ Len(liquidatablePositions) = 1
    /\ selectedBorrower.ok /\ selectedBorrower.borrower = "0xab"
    /\ liquidatablePositions[1].borrower = "0xAB"
    /\ liquidatablePositions[1].borrowShares = 500

\* C20: a change of the selection (another market, Cancel, another view)
\* leaves txStep idle and the pending-amount, borrow-amount and full-repay
\* buffers cleared, submits nothing and leaves the submitted transaction
\* as it is
SelectionReset == selection' # selection
C20_SelectionResetClears ==
    [][SelectionReset
        => /\ txStep' = "idle"
           /\ approvedCollateralRef' = 0 /\ borrowAmountRef' = 0
           /\ ~isFullRepayRef'
           /\ lastTx' = lastTx /\ wr' = wr]_vars

\* C21: after a wallet rejection or an on-chain revert the step variable of
\* the sequence that submitted the transaction (txStep, liquidateTxStep or
\* faucetTxStep) is idle again
C21_FailureReturnsIdle ==
    [][(Rejected \/ Reverted)
        => CASE lastTx.owner = "main" -> txStep' = "idle"
             [] lastTx.owner = "liq" -> liquidateTxStep' = "idle"
             [] lastTx.owner = "faucet" -> faucetTxStep' = "idle"
             [] OTHER -> TRUE]_vars

\* C22: a sequence starts from idle only with an entered amount that is
\* positive and at most the maximum of the selected action (the wallet
\* balance for a supply, the supplied, posted or owed amount of the position
\* for a withdrawal or a repayment), and a borrow only with posted or newly
\* entered collateral
Started == txStep = "idle" /\ txStep' # "idle"
C22_InputChecked ==
    [][Started
        => /\ inputAmount # NoInput /\ parseUnits(inputAmount) > 0
           /\ parseUnits(inputAmount) <= getMaxAmount(Cur)
           /\ BorrowFlow
              => (userPosition.collateral > 0 \/ ~NoCollateralEntered)]_vars

\* C23: no approve and no supplyCollateral of a borrow is submitted for more
\* collateral than the wallet's UPKRW balance
C23_CollateralWithinBalance ==
    [][(MainWritten /\ BorrowFlow
        /\ lastTx'.fn \in {"approve", "supplyCollateral"})
        => lastTx'.assets <= upkrwBalance]_vars

\* C24: the client hands no transaction to the wallet while no wallet is
\* connected, the follow-up steps of a running sequence included
C24_ConnectedToWrite ==
    [][Written => isConnected]_vars

Failed ==
    /\ wr \in {"signing", "mining"} /\ wr' = "idle"
    /\ lastTx.owner = "main" /\ lastTx' = NoTx
    /\ txStep # "idle" /\ txStep' = "idle" /\ ~DelayedResetApplied
WithdrawAborted ==
    WithdrawResumed /\ txStep = "executing" /\ txStep' = "idle"
C26_AbortShowsNotice ==
    [][(Failed \/ WithdrawAborted) => errorMessage' # "null"]_vars

\* C27: a sequence captures its amounts when it starts (the entered amount,
\* and for a borrow the entered collateral), keeps them while it runs whatever
\* is typed, and each execution step submits the captured amount
Captured ==
    /\ (Started /\ txStep' = "approving")
        => IF BorrowFlow
           THEN /\ approvedCollateralRef' = parseUnits(collateralAmount)
                /\ borrowAmountRef' = parseUnits(inputAmount)
           ELSE approvedCollateralRef' = parseUnits(inputAmount)
    /\ (Started /\ txStep' = "borrowing")
        => lastTx'.assets = parseUnits(inputAmount)
Kept ==
    (txStep # "idle" /\ txStep' # "idle")
        => /\ approvedCollateralRef' = approvedCollateralRef
           /\ borrowAmountRef' = borrowAmountRef
Used ==
    (MainWritten /\ txStep \in {"approved", "collateral_supplied"})
        => CASE lastTx'.fn = "borrow" -> lastTx'.assets = borrowAmountRef
             [] lastTx'.fn \in {"supply", "supplyCollateral"}
                  -> lastTx'.assets = approvedCollateralRef
             [] lastTx'.fn = "repay" /\ ~isFullRepayRef
                  -> lastTx'.assets = approvedCollateralRef
             [] OTHER -> TRUE
RepayFlow == selection = "UPETH_BORROW" /\ actionMode = "withdraw"
RepaySteps ==
    /\ (txStep = "idle" /\ Moved)
       => /\ txStep' = "approving" /\ MainWritten /\ lastTx'.fn = "approve"
          /\ lastTx'.token = "UPETH"
          /\ IF parseUnits(inputAmount) >= userPosition.borrowAssets
             THEN lastTx'.assets > userPosition.borrowAssets
             ELSE lastTx'.assets = parseUnits(inputAmount)
    /\ (txStep = "approving" /\ Moved) => txStep' \in {"approved", "idle"}
    /\ (txStep = "approved" /\ Moved)
       => \/ txStep' = "idle"
          \/ txStep' = "executing" /\ MainWritten /\ lastTx'.fn = "repay"
    /\ (txStep = "executing" /\ Moved) => txStep' = "idle"
C28_RepaySequence ==
    [][(RepayFlow /\ RepayFlow') => RepaySteps]_vars

\* C29: a confirmed borrowing or executing step schedules its delayed reset
\* once, and a delayed reset that finds a sequence in progress finds the
\* completed one that scheduled it: it never takes a sequence started later
\* back to idle or clears its buffers
ResetScheduled == resetJobs'.refetch = resetJobs.refetch + 1
C29_ResetOwnSequence ==
    [][/\ ResetScheduled
          => (executionStatus # "confirmed" /\ executionStatus' = "confirmed")
       /\ (DelayedResetApplied /\ txStep # "idle")
          => /\ txStep \in {"borrowing", "executing"}
             /\ executionStatus = "confirmed"
             /\ resetJobs.refetch + resetJobs.timer = 1]_vars

\* C30: the liquidate that follows a confirmed approve of the liquidation
\* names the borrower that was selected when that approve was submitted
C30_LiquidateApprovedBorrower ==
    [][(Written /\ lastTx'.fn = "liquidate"
        /\ lastTx.owner = "liq" /\ lastTx.fn = "approve")
        => lastTx'.token = lastTx.note.borrower]_vars

\* C31: when a borrow passes the gate on a simulated Health Factor, the
\* Health Factor computed at that moment from the cached oracle price, the
\* current position and the borrowed amount is at least 1.0
C31_BorrowHealthyNow ==
    [][(MainWritten /\ lastTx'.fn = "borrow" /\ simulatedHF # NULL)
        => LET hf == calculateHealthFactor(Cur, lastTx'.assets, 0)
           IN  hf # NULL /\ hf >= WAD]_vars

\* C32: liquidateTxStep becomes success only on the confirmed receipt of the
\* liquidate transaction; the confirmation of the approve that precedes it
\* does not mark the liquidation as successful
LiquidationSucceeds == liquidateTxStep # "success" /\ liquidateTxStep' = "success"
C32_SuccessOnLiquidateReceipt ==
    [][LiquidationSucceeds
        => /\ wr = "mining" /\ wr' = "confirmed"
           /\ lastTx.owner = "liq" /\ lastTx.fn = "liquidate"
           /\ liquidateTxStep = "liquidating"]_vars

\* C33: while the fresh-position read of a confirmed liquidation approve is
\* in flight, a change of the polled market data, the oracle price or the
\* selected borrower does not make the success effect start a second read,
\* so that one confirmed approve leads to at most one liquidate
ReadInFlight ==
    /\ isTxSuccess(Cur) /\ lastTx.fn = "approve" /\ lastTx.owner = "liq"
    /\ liquidateTxStep = "approving" /\ liqReads # << >>
EffectRunsAgain ==
    /\ liqDeps(Cur)' # liqDeps(Cur)
    /\ isTxSuccess(Cur)' /\ liquidateTxStep' = "approving"
    /\ executeLiquidationAfterApprove(
            Cur', [Cur' EXCEPT !.liqReads = << >>]).liqReads # << >>
C33_OneLiquidatePerApprove == [][ReadInFlight => ~EffectRunsAgain]_vars

\* C34: once the approve of a liquidation is confirmed, liquidateTxStep
\* eventually leaves approving (to liquidating, or back to idle), also when
\* the panel was closed or the amount cleared while the approve was pending
ApproveConfirmed ==
    /\ isTxSuccess(Cur) /\ lastTx.fn = "approve" /\ lastTx.owner = "liq"
    /\ liquidateTxStep = "approving"
C34_LeavesApproving == ApproveConfirmed ~> (liquidateTxStep # "approving")

\* C35: a liquidate is submitted only for a borrower whose Health Factor,
\* computed from the position read again after the approve, is below 1.0
C35_LiquidateUnhealthy ==
    [][(Written /\ lastTx'.fn = "liquidate")
        => LET position == checkBorrowerPosition(lastTx'.note, lastTx'.token,
                                                 lastTx'.note.fresh)
           IN  position.ok /\ position.healthFactor < WAD]_vars

\* C36: the supply and borrow amounts of the user's position are the floor of
\* shares * totalAssets / totalShares, computed on integers and converted to
\* a Number at the end, and 0 when totalShares is 0
IsFloor(q, num, den) == q * den <= num /\ num < (q + 1) * den
SideAccounted(amount, shares, totalAssets, totalShares) ==
    IF totalShares = 0 THEN amount = 0
    ELSE \E q \in 0..(shares * totalAssets) :
            /\ IsFloor(q, shares * totalAssets, totalShares)
            /\ amount = ToNumber(q)
C36_AssetsFromShares ==
    (positionData.ok /\ marketData.ok)
        => /\ SideAccounted(userPosition.supplyAssets,
                            positionData.supplyShares,
                            marketData.totalSupplyAssets,
                            marketData.totalSupplyShares)
           /\ SideAccounted(userPosition.borrowAssets,
                            positionData.borrowShares,
                            marketData.totalBorrowAssets,
                            marketData.totalBorrowShares)
C36_Witness ==
    /\ positionData.ok /\ marketData.ok
    /\ marketData.totalSupplyShares = 0 /\ positionData.supplyShares > 0
    /\ userPosition.supplyAssets = 0
    /\ (positionData.borrowShares * marketData.totalBorrowAssets)
           % marketData.totalBorrowShares # 0
    /\ userPosition.borrowAssets = 3

\* C37: with maxBorrow the floor of totalCollateral * oraclePrice * LLTV /
\* (ORACLE_PRICE_SCALE * WAD), the Health Factor simulated for a total borrow
\* X is at least 1.0 when 0 < X <= maxBorrow and below 1.0 when X > maxBorrow
Simulated ==
    /\ inputAmount' # inputAmount /\ selection = "UPETH_BORROW"
    /\ simulatedHF' # NULL
TotalBorrowTyped == userPosition.borrowAssets + parseFloat(inputAmount')
TotalCollateralTyped ==
    userPosition.collateral
        + (IF collateralAmount = NoInput THEN 0 ELSE parseFloat(collateralAmount))
C37_CrossesAtMaxBorrow ==
    [][Simulated
        => LET maxBorrow == maxBorrowOf(TotalCollateralTyped, oraclePrice)
           IN  /\ TotalBorrowTyped <= maxBorrow => simulatedHF' >= WAD
               /\ TotalBorrowTyped > maxBorrow => simulatedHF' < WAD]_vars

\* C38: the Health Factor does not grow when the total borrow grows and does
\* not shrink when the total collateral grows, the oracle price and the
\* position being the same: a simulated value is at least the value for any
\* larger borrow and at most the value for any larger collateral
TypedCollateral ==
    IF collateralAmount = NoInput THEN 0 ELSE parseFloat(collateralAmount)
C38_Monotone ==
    [][Simulated
        => /\ \A x \in BoundaryInputSet \cup {2000} :
                 LET hf == calculateHealthFactor(Cur, parseFloat(x),
                                                 TypedCollateral)
                 IN  parseFloat(x) >= parseFloat(inputAmount')
                         => hf # NULL /\ hf <= simulatedHF'
           /\ \A c \in {1, 1000, 2000} :
                 LET hf == calculateHealthFactor(Cur, parseFloat(inputAmount'),
                                                 parseFloat(c))
                 IN  parseFloat(c) >= TypedCollateral
                         => hf # NULL /\ hf >= simulatedHF']_vars
C38_Witness ==
    /\ selection = "UPETH_BORROW" /\ inputAmount = 460
    /\ simulatedHF # NULL
    /\ simulatedHF = calculateHealthFactor(Cur, parseFloat(inputAmount),
                                           TypedCollateral)
    /\ simulatedHF > calculateHealthFactor(Cur, 920, TypedCollateral)
    /\ simulatedHF < calculateHealthFactor(Cur, 460, TypedCollateral + 1000)

\* C39: the approve that starts a liquidation is for at most the debt known
\* for the selected borrower plus 1% of it, whatever amount was requested
LiquidationApproveWritten ==
    Written /\ lastTx'.owner = "liq" /\ lastTx'.fn = "approve"
C39_ApproveWithinDebt ==
    [][LiquidationApproveWritten
        => lastTx'.assets <= selectedBorrower.borrowAssets
                                + (selectedBorrower.borrowAssets \div 100)]_vars
C39_Witness ==
    /\ lastTx.owner = "liq" /\ lastTx.fn = "approve" /\ selectedBorrower.ok
    /\ lastTx.note.repay > selectedBorrower.borrowAssets
    /\ lastTx.assets = selectedBorrower.borrowAssets
                           + (selectedBorrower.borrowAssets \div 100)

====
